---- MODULE Spec2Model ----
(***************************************************************************)
(* A model of script.js of the Insights dashboard: the coordinate          *)
(* normaliser, the aggregators of the fisheries and biodiversity pipelines *)
(* and the page controller (main page Explore click, detail page load,    *)
(* the four upstream requests and the joint render).                      *)
(*                                                                         *)
(* Numbers.  A coordinate is an integer count of 10^-7 degrees, one digit *)
(* finer than the six decimals formatCoord keeps, so that formatting is   *)
(* a rounding and not the identity.  The two IEEE infinities and NaN are  *)
(* three values outside the range of every finite number of the model;   *)
(* the code only ever compares them (clamp, isNaN), never computes with   *)
(* them.                                                                   *)
(*                                                                         *)
(* Text.  The text of an input field or of a URL parameter is a record    *)
(* [kind, k, n]: "absent" (no such URL parameter), "junk" (empty or       *)
(* non-numeric text), "inf" (the text Infinity, sign n) or "dec" (the     *)
(* decimal numeral n / 10^k, k digits after the point).                   *)
(***************************************************************************)
EXTENDS Integers, Sequences, FiniteSets, TLC

VARIABLES
    argLat, argLon, normOut,        \* harness of normalizeCoordsMaybeSwap
    obisIn, gbifIn, fishOut, molOut, \* harness of the two aggregators
    hpc,        \* harness position: "in" before the call, "out" after it
    page,       \* document shown: "main" or a detail page id (body data-page)
    query,      \* window.location.search: the texts of lat and lon
    phase,      \* position of the document's script
    coords,     \* the local coords of renderDetailPage (NoCoords for null)
    storage,    \* localStorage entry selectedCoords
    navLinks,   \* query carried by the href of the three nav links
    content,    \* innerHTML of the element detail-content
    req,        \* the four fetch() calls of the document
    pipe,       \* the three promises getLiveOrMockData awaits
    data,       \* the value getLiveOrMockData resolved with
    effects,    \* side effects of the running script, in program order
    submitted   \* history: the coordinate of the last accepted Explore click,
                \* while every page since was reached by a nav link

vars == <<argLat, argLon, normOut, obisIn, gbifIn, fishOut, molOut, hpc,
          page, query, phase, coords, storage, navLinks, content,
          req, pipe, data, effects, submitted>>

normVars == <<argLat, argLon, normOut>>
aggVars  == <<obisIn, gbifIn, fishOut, molOut>>
ctlVars  == <<page, query, phase, coords, storage, navLinks, content,
              req, pipe, data, effects, submitted>>

-----------------------------------------------------------------------------
(* Numbers *)

\* formatCoord keeps this many decimals
FormatDigits == 6

\* units of the model per degree: one decimal more than formatCoord keeps
Deg == 10 ^ (FormatDigits + 1)

PosInf == 211 * Deg
NegInf == -PosInf
NaN    == 213 * Deg

IsNaN(x) == x = NaN

Max2(a, b) == IF a >= b THEN a ELSE b
Min2(a, b) == IF a <= b THEN a ELSE b

\* a mutant of clamp: the upper limit is not applied
clampNoUpper(value, min, max) == Max2(min, value)

clamp(value, min, max) == Max2(min, Min2(max, value))

Abs(x) == IF x < 0 THEN -x ELSE x

\* x / d for an even d, rounded to the nearest integer, halves away from zero
\* (Number.prototype.toFixed)
RoundDiv(x, d) ==
    IF x >= 0 THEN (x + d \div 2) \div d ELSE -((d \div 2 - x) \div d)

-----------------------------------------------------------------------------
(* Text *)

Absent    == [kind |-> "absent", k |-> 0, n |-> 0]
Junk      == [kind |-> "junk",   k |-> 0, n |-> 0]
InfText   == [kind |-> "inf",    k |-> 0, n |-> 1]
NegInfText == [kind |-> "inf",   k |-> 0, n |-> -1]
Dec(k, n) == [kind |-> "dec",    k |-> k, n |-> n]

\* a mutant of formatCoord: the digits past the sixth are cut, not rounded
formatCoordTruncating(value) == Dec(FormatDigits, value \div 10)

\* Number(value).toFixed(6)
formatCoord(value) == Dec(FormatDigits, RoundDiv(value, Deg \div 10 ^ FormatDigits))

\* parseFloat: NaN for a missing parameter (null) and for text that does not
\* start with a numeral, an infinity for the text Infinity
parseFloat(t) ==
    CASE t.kind = "dec" -> t.n * 10 ^ (FormatDigits + 1 - t.k)
      [] t.kind = "inf" -> IF t.n > 0 THEN PosInf ELSE NegInf
      [] OTHER          -> NaN

-----------------------------------------------------------------------------
(* Coordinate normaliser *)

\* a mutant of normalizeCoordsMaybeSwap: the pair is never swapped
normalizeNoSwap(lat, lon) ==
    [latitude |-> clamp(lat, -90 * Deg, 90 * Deg),
     longitude |-> clamp(lon, -180 * Deg, 180 * Deg)]

normalizeCoordsMaybeSwap(lat, lon) ==
    LET looksFlipped == (lat < -90 * Deg \/ lat > 90 * Deg)
                        /\ lon >= -180 * Deg /\ lon <= 180 * Deg
    IN  IF looksFlipped
        THEN [latitude |-> clamp(lon, -90 * Deg, 90 * Deg),
              longitude |-> clamp(lat, -180 * Deg, 180 * Deg)]
        ELSE [latitude |-> clamp(lat, -90 * Deg, 90 * Deg),
              longitude |-> clamp(lon, -180 * Deg, 180 * Deg)]

-----------------------------------------------------------------------------
(* Aggregators.  An occurrence record is [scientificName, family, genus,   *)
(* class]; a field the source omitted is the empty text (falsy, like       *)
(* undefined).                                                             *)

Rec(name, family, genus, class) ==
    [scientificName |-> name, family |-> family, genus |-> genus, class |-> class]

Range(f) == {f[i] : i \in DOMAIN f}

\* Array.prototype.slice(0, k)
Take(s, k) == SubSeq(s, 1, Min2(k, Len(s)))

\* arr.filter(Boolean) on an array of texts
Truthy(s) == SelectSeq(s, LAMBDA x : x # "")

\* Array.from(new Set(s)): the distinct elements in first-occurrence order
Unique(s) ==
    LET first == SelectSeq([i \in 1..Len(s) |-> i],
                           LAMBDA i : \A j \in 1..(i - 1) : s[j] # s[i])
    IN  [k \in 1..Len(first) |-> s[first[k]]]

\* a mutant of the class match: the class is compared as spelled
ToLowerCaseVerbatim(s) == s

\* String.prototype.toLowerCase on the class names of the model
ToLowerCase(s) ==
    CASE s = "Actinopterygii" -> "actinopterygii"
      [] s = "ACTINOPTERYGII" -> "actinopterygii"
      [] s = "Mammalia"       -> "mammalia"
      [] OTHER                -> s

\* the keys of the model that are integer indices ("1", "2"), and their values
IsIntegerIndex(s) == s \in {"1", "2"}

ToIndex(s) == IF s = "1" THEN 1 ELSE IF s = "2" THEN 2 ELSE 0

\* the order in which Object.entries lists the own keys of an object whose
\* keys were inserted in the order of names: the integer indices first, in
\* ascending numeric order, then the other keys in insertion order
OwnKeys(names) ==
    LET idx == SelectSeq(names, IsIntegerIndex)
        str == SelectSeq(names, LAMBDA x : ~IsIntegerIndex(x))
        asc == [k \in 1..Len(idx) |->
                   CHOOSE x \in Range(idx) :
                       Cardinality({y \in Range(idx) : ToIndex(y) < ToIndex(x)})
                           = k - 1]
    IN  asc \o str

\* the loop of fetchBiodiversityFromApi over one field of the records,
\* counts[key] = (counts[key] || 0) + 1 for every truthy key, as the entries
\* Object.entries gives for the object built
CountKeys(keys) ==
    LET names == OwnKeys(Unique(Truthy(keys)))
    IN  [j \in 1..Len(names) |->
            [name |-> names[j],
             count |-> Cardinality({i \in 1..Len(keys) : keys[i] = names[j]})]]

\* position of e in a list sorted by non-increasing count: behind every entry
\* whose count is at least e's (Array.prototype.sort is stable)
InsertByCount(sorted, e) ==
    LET before == SelectSeq(sorted, LAMBDA x : x.count >= e.count)
        after  == SelectSeq(sorted, LAMBDA x : x.count < e.count)
    IN  before \o <<e>> \o after

RECURSIVE SortUpTo(_, _)
SortUpTo(entries, i) ==
    IF i = 0 THEN << >> ELSE InsertByCount(SortUpTo(entries, i - 1), entries[i])

\* Object.entries(obj).sort((a,b)=>b[1]-a[1]).slice(0,k); the label
\* `${n} (${c})` is kept as the pair [name, count]
topK(counts, k) == Take(SortUpTo(counts, Len(counts)), k)

\* a JSON body of source A: json.results, when it is an array
ObisBody(records) == [isArray |-> TRUE, results |-> records]
NoResults == [isArray |-> FALSE, results |-> << >>]

ResultsOf(json) == IF json.isArray THEN json.results ELSE << >>

Field(records, f) == [i \in 1..Len(records) |-> records[i][f]]

\* a mutant of the risk threshold: 50 distinct taxa already count as Moderate
invasiveRiskInclusive(n) == IF n >= 50 THEN "Moderate" ELSE "Low"

invasiveRisk(n) == IF n > 50 THEN "Moderate" ELSE "Low"

\* the value returned inside the try block of fetchBiodiversityFromApi
BiodiversitySummary(json) ==
    LET records    == ResultsOf(json)
        taxa       == Truthy(Field(records, "scientificName"))
        uniqueTaxa == Unique(taxa)
        familyCounts == CountKeys(Field(records, "family"))
        genusCounts  == CountKeys(Field(records, "genus"))
    IN  [eDnaDiversityIndex |->
            IF Len(uniqueTaxa) > 0 THEN Dec(2, Min2(Len(uniqueTaxa), 95))
            ELSE Dec(2, 0),
         potentialTaxaDetected |-> Len(uniqueTaxa),
         invasiveRisk |-> invasiveRisk(Len(uniqueTaxa)),
         markerGenes |-> <<"COI", "16S", "18S">>,
         topTaxa |-> Take(uniqueTaxa, 5),
         totalOccurrences |-> Len(records),
         topFamilies |-> topK(familyCounts, 3),
         topGenera |-> topK(genusCounts, 3),
         occurrences |-> Take(records, 20)]

\* a raw record of source B and the fields fetchGbifFishOccurrences keeps
GbifRaw(name, species) == [scientificName |-> name, species |-> species]

GbifNormalize(results) ==
    [i \in 1..Len(results) |->
        [scientificName |->
            IF results[i].scientificName # "" THEN results[i].scientificName
            ELSE results[i].species]]

\* Math.round(totalCount * 0.8): halves go up
RoundTenths(x) == (x + 5) \div 10

\* a mutant of the catch index: the upper clamp is 100
predictedCatchIndexLoose(totalCount) == Min2(100, Max2(20, totalCount * 2 + 20))

predictedCatchIndex(totalCount) == Min2(95, Max2(20, totalCount * 2 + 20))

habitatSuitability(totalCount) == Min2(98, 40 + RoundTenths(totalCount * 8))

advisories(totalCount) ==
    IF totalCount > 10 THEN "Conditions favorable for small-scale fishing"
    ELSE "Survey area recommended"

\* the value returned inside the try block of fetchFisheriesFromApi
FisheriesSummary(obisJson, gbifFish) ==
    LET obisRecords == ResultsOf(obisJson)
        obisFish    == SelectSeq(obisRecords,
                          LAMBDA r : ToLowerCase(r.class) = "actinopterygii")
        obisSpecies == Truthy(Field(obisFish, "scientificName"))
        gbifSpecies == Truthy(Field(gbifFish, "scientificName"))
        combinedSpecies == Unique(obisSpecies \o gbifSpecies)
        dominant ==
            IF Len(combinedSpecies) > 0 /\ combinedSpecies[1] # ""
                THEN combinedSpecies[1]
            ELSE IF Len(obisRecords) > 0 /\ obisRecords[1].scientificName # ""
                THEN obisRecords[1].scientificName
            ELSE IF Len(gbifFish) > 0 /\ gbifFish[1].scientificName # ""
                THEN gbifFish[1].scientificName
            ELSE "Unknown"
        obisCount  == Len(obisFish)
        gbifCount  == Len(gbifFish)
        totalCount == obisCount + gbifCount
    IN  [predictedCatchIndex |-> predictedCatchIndex(totalCount),
         dominantSpecies |-> dominant,
         habitatSuitability |-> habitatSuitability(totalCount),
         advisories |-> advisories(totalCount),
         totalFishOccurrences |-> obisCount,
         totalFishOccurrencesGbif |-> gbifCount,
         totalFishOccurrencesCombined |-> totalCount,
         sampleSpecies |-> Take(combinedSpecies, 5),
         fishOccurrences |-> Take(obisFish, 20),
         fishOccurrencesGbif |-> Take(gbifFish, 20)]

-----------------------------------------------------------------------------
(* Inputs *)

\* longest list of distinct taxa, of source-B records, of enumerated records
MaxTaxa == 100
MaxGbif == 3
MaxEnum == 3
MaxGbifEnum == 2

\* numbers given to the normaliser: both sides of every limit, the infinities
CoordValues ==
    {NegInf, -200 * Deg, -180 * Deg - 1, -180 * Deg, -100 * Deg, -90 * Deg - 1,
     -90 * Deg, -455 * (Deg \div 10), 0, 10 * Deg, 123456789, 90 * Deg,
     90 * Deg + 1, 180 * Deg, 180 * Deg + 1, 200 * Deg, PosInf}

\* three long records in four are bony fish, in either spelling of the class
ClassOf(i) ==
    IF i % 4 = 0 THEN "ACTINOPTERYGII"
    ELSE IF i % 4 = 1 THEN "Mammalia" ELSE "Actinopterygii"

\* a long list of source A: blank nameless records, then n records of n
\* distinct taxa, then dup records repeating the first taxa
LongRecords(n, dup, blank) ==
    [i \in 1..(blank + n + dup) |->
        IF i <= blank \/ n = 0
        THEN Rec("", "", "", ClassOf(i))
        ELSE LET t == IF i <= blank + n THEN i - blank ELSE i - blank - n
             IN  Rec("sp" \o ToString(t), "Fam" \o ToString(t % 4),
                     "Gen" \o ToString(t % 7), ClassOf(t))]

LongGbif(g) == [i \in 1..g |-> GbifRaw("fish" \o ToString(i), "")]

RecAlphabet ==
    {Rec("Gadus morhua", "Gadidae", "Gadus", "Actinopterygii"),
     Rec("Clupea harengus", "Clupeidae", "Clupea", "ACTINOPTERYGII"),
     Rec("Orcinus orca", "Delphinidae", "Orcinus", "Mammalia"),
     Rec("", "Gadidae", "", "Actinopterygii"),
     Rec("Gadus ogac", "Gadidae", "Gadus", "")}

GbifAlphabet ==
    {GbifRaw("Gadus morhua", ""), GbifRaw("", "Thunnus albacares"), GbifRaw("", "")}

SeqsUpTo(S, k) == UNION {[1..m -> S] : m \in 0..k}

\* records whose family and genus are numbers
NumberedAlphabet ==
    {Rec("Mola mola", "2", "2", "Actinopterygii"),
     Rec("Mola tecta", "1", "1", "Actinopterygii"),
     Rec("Masturus lanceolatus", "Molidae", "Masturus", "Actinopterygii")}

\* the pairs (body of source A, json.results of source B) given to the aggregators
AggInputs ==
    ({ObisBody(r) : r \in SeqsUpTo(NumberedAlphabet, MaxEnum)} \X {<< >>})
    \cup
    ({ObisBody(LongRecords(n, dup, blank)) :
        n \in 0..MaxTaxa, dup \in 0..1, blank \in 0..1}
       \X {LongGbif(g) : g \in 0..MaxGbif})
    \cup
    (({ObisBody(r) : r \in SeqsUpTo(RecAlphabet, MaxEnum)} \cup {NoResults})
       \X SeqsUpTo(GbifAlphabet, MaxGbifEnum))

-----------------------------------------------------------------------------
(* The state of the page controller before any document's script has run *)

Domains  == {"oceanographic", "fisheries", "molecular"}
Requests == {"marine", "obisFish", "gbif", "obisMol"}

NoCoords == [latitude |-> NaN, longitude |-> NaN]
NoQuery  == [lat |-> Absent, lon |-> Absent]
Blank    == [kind |-> "blank", domain |-> "none", dash |-> {}, shown |-> {}, rows |-> 0]
Loading  == [kind |-> "loading", domain |-> "none", dash |-> {}, shown |-> {}, rows |-> 0]
IdleReq  == [st |-> "idle", latitude |-> NaN, longitude |-> NaN, body |-> << >>]
IdlePipe == [st |-> "idle", value |-> << >>]
NoData   == [d \in Domains |-> << >>]
NoSubmit == [c |-> NoCoords, live |-> FALSE]

\* a fresh document: static nav links, empty content, nothing in flight
FreshDocument ==
    /\ coords' = NoCoords
    /\ navLinks' = [d \in Domains |-> NoQuery]
    /\ content' = Blank
    /\ req' = [r \in Requests |-> IdleReq]
    /\ pipe' = [d \in Domains |-> IdlePipe]
    /\ data' = NoData

CtlAtRest ==
    /\ page = "main"
    /\ query = NoQuery
    /\ phase = "idle"
    /\ coords = NoCoords
    /\ storage = NoCoords
    /\ navLinks = [d \in Domains |-> NoQuery]
    /\ content = Blank
    /\ req = [r \in Requests |-> IdleReq]
    /\ pipe = [d \in Domains |-> IdlePipe]
    /\ data = NoData
    /\ effects = << >>
    /\ submitted = NoSubmit

NormAtRest == argLat = 0 /\ argLon = 0 /\ normOut = NoCoords
AggAtRest  == obisIn = NoResults /\ gbifIn = << >> /\ fishOut = << >> /\ molOut = << >>

-----------------------------------------------------------------------------
(* API clients.  A promise is [st, isNull, value]: pending, fulfilled (with *)
(* value, or with null when isNull) or rejected.  A request is             *)
(* [st, latitude, longitude, body]: idle (never issued), pending, ok (a    *)
(* success status, with its JSON body), notok (a non-success status) or    *)
(* neterr (fetch rejected).                                                *)

PendingP     == [st |-> "pending", isNull |-> FALSE, value |-> << >>]
RejectedP    == [st |-> "rejected", isNull |-> FALSE, value |-> << >>]
NullP        == [st |-> "fulfilled", isNull |-> TRUE, value |-> << >>]
Fulfilled(v) == [st |-> "fulfilled", isNull |-> FALSE, value |-> v]

\* Promise.all: rejected as soon as one is rejected, fulfilled when all are
PromiseAllSt(sts) ==
    IF "rejected" \in sts THEN "rejected"
    ELSE IF sts \subseteq {"fulfilled"} THEN "fulfilled"
    ELSE "pending"

\* the object fetchOceanographicFromApi returns; of the ten hourly arrays,
\* all copied alike, the model keeps sea_surface_temperature
OceanSummary(json) ==
    LET times == IF json.hasHourly THEN json.time ELSE << >>
    IN  [hourly |-> [time |-> [i \in 1..Len(times) |-> times[i] \o "Z"],
                     sea_surface_temperature |->
                        IF json.hasHourly THEN json.sst ELSE << >>],
         units |-> json.units]

\* a mutant of fetchOceanographicFromApi: no try block, a failure is thrown
fetchOceanographicUncaught(rq) ==
    CASE rq.st = "ok"      -> Fulfilled(OceanSummary(rq.body))
      [] rq.st = "pending" -> PendingP
      [] OTHER             -> RejectedP

fetchOceanographicFromApi(rq) ==
    CASE rq.st = "ok"      -> Fulfilled(OceanSummary(rq.body))
      [] rq.st = "pending" -> PendingP
      [] OTHER             -> NullP

\* rejects on a network error and on a non-success status
fetchObisOccurrences(rq) ==
    CASE rq.st = "ok"      -> Fulfilled(rq.body)
      [] rq.st = "pending" -> PendingP
      [] OTHER             -> RejectedP

\* a mutant of fetchGbifFishOccurrences: no try block, a failure is thrown
fetchGbifFishUncaught(rq) ==
    CASE rq.st = "ok"      -> Fulfilled(GbifNormalize(rq.body))
      [] rq.st = "pending" -> PendingP
      [] OTHER             -> RejectedP

\* every failure is caught and becomes the empty list
fetchGbifFishOccurrences(rq) ==
    CASE rq.st = "ok"      -> Fulfilled(GbifNormalize(rq.body))
      [] rq.st = "pending" -> PendingP
      [] OTHER             -> Fulfilled(<< >>)

\* a mutant of fetchBiodiversityFromApi: no try block, a failure of source A
\* is thrown on
fetchBiodiversityUncaught(rq) ==
    LET json == fetchObisOccurrences(rq)
    IN  CASE json.st = "fulfilled" -> Fulfilled(BiodiversitySummary(json.value))
          [] json.st = "pending"   -> PendingP
          [] OTHER                 -> RejectedP

fetchBiodiversityFromApi(rq) ==
    LET json == fetchObisOccurrences(rq)
    IN  CASE json.st = "fulfilled" -> Fulfilled(BiodiversitySummary(json.value))
          [] json.st = "pending"   -> PendingP
          [] OTHER                 -> NullP

fetchFisheriesFromApi(rqObis, rqGbif) ==
    LET obisJson == fetchObisOccurrences(rqObis)
        gbifFish == fetchGbifFishOccurrences(rqGbif)
        all      == PromiseAllSt({obisJson.st, gbifFish.st})
    IN  CASE all = "fulfilled" ->
                Fulfilled(FisheriesSummary(obisJson.value, gbifFish.value))
          [] all = "pending"   -> PendingP
          [] OTHER             -> NullP

\* the three promises getLiveOrMockData passes to Promise.all
Pipelines(rq) ==
    [d \in Domains |->
        CASE d = "oceanographic" -> fetchOceanographicFromApi(rq["marine"])
          [] d = "fisheries" -> fetchFisheriesFromApi(rq["obisFish"], rq["gbif"])
          [] d = "molecular" -> fetchBiodiversityFromApi(rq["obisMol"])]

\* x || {}
OrEmpty(p) == IF p.isNull THEN << >> ELSE p.value

\* a mutant of getLiveOrMockData: it resolves with the first pipeline settled
getLiveOrMockDataRace(pp) ==
    [st |-> IF \E d \in Domains : pp[d].st = "rejected" THEN "rejected"
            ELSE IF \E d \in Domains : pp[d].st = "fulfilled" THEN "fulfilled"
            ELSE "pending",
     isNull |-> FALSE,
     value |-> [d \in Domains |-> OrEmpty(pp[d])]]

getLiveOrMockData(pp) ==
    [st |-> PromiseAllSt({pp[d].st : d \in Domains}),
     isNull |-> FALSE,
     value |-> [d \in Domains |-> OrEmpty(pp[d])]]

-----------------------------------------------------------------------------
(* Renderer.  The markup of detail-content is [kind, domain, dash, shown,  *)
(* rows]: the labels whose cell display() shows as "-", the labels whose   *)
(* cell shows a value, and the number of rows of the hourly table.         *)

Has(d, f) == f \in DOMAIN d

OceanLabels == {"timeISO", "seaSurfaceTemperatureC", "waveHeightM"}
FisheriesNumbers == {"predictedCatchIndex", "habitatSuitability",
                     "totalFishOccurrences", "totalFishOccurrencesGbif",
                     "totalFishOccurrencesCombined"}
FisheriesTexts == {"dominantSpecies", "advisories"}
FisheriesLists == {"sampleSpecies", "fishOccurrences", "fishOccurrencesGbif"}
FisheriesLabels == FisheriesNumbers \cup FisheriesTexts \cup FisheriesLists
MolecularNumbers == {"eDnaDiversityIndex", "potentialTaxaDetected", "totalOccurrences"}
MolecularTexts == {"invasiveRisk"}
MolecularLists == {"markerGenes", "topFamilies", "topGenera", "occurrences"}
MolecularLabels == MolecularNumbers \cup MolecularTexts \cup MolecularLists

Labels(d) ==
    CASE d = "oceanographic" -> OceanLabels
      [] d = "fisheries" -> FisheriesLabels
      [] d = "molecular" -> MolecularLabels

\* the cells of a table for which display() returns the value, not "-":
\* a number or a formatted number that is present, a text that is present
\* and not empty, a list that is present and not empty
Table(domain, d, numbers, texts, lists) ==
    LET shown == {f \in numbers : Has(d, f)}
                 \cup {f \in texts : Has(d, f) /\ d[f] # ""}
                 \cup {f \in lists : Has(d, f) /\ Len(d[f]) > 0}
    IN  [kind |-> "table", domain |-> domain,
         dash |-> (numbers \cup texts \cup lists) \ shown,
         shown |-> shown, rows |-> 0]

renderOceanographic(d) ==
    IF Has(d, "hourly")
    THEN LET h == d.hourly
             n == Len(h.time)
             sst == h.sea_surface_temperature
         IN  [kind |-> "hourly", domain |-> "oceanographic",
              dash |-> IF n = 0 THEN {"time", "sea_surface_temperature"}
                       ELSE IF Len(sst) < n THEN {"sea_surface_temperature"}
                       ELSE {},
              shown |-> IF n = 0 THEN {}
                        ELSE IF Len(sst) = 0 THEN {"time"}
                        ELSE {"time", "sea_surface_temperature"},
              rows |-> n]
    ELSE [kind |-> "table", domain |-> "oceanographic",
          dash |-> {f \in OceanLabels : ~Has(d, f)},
          shown |-> {f \in OceanLabels : Has(d, f)}, rows |-> 0]

renderFisheries(d) ==
    Table("fisheries", d, FisheriesNumbers, FisheriesTexts, FisheriesLists)

renderMolecular(d) ==
    Table("molecular", d, MolecularNumbers, MolecularTexts, MolecularLists)

\* a mutant of the page dispatch: every page renders the oceanographic table
RenderPageOceanOnly(pageId, dat) == renderOceanographic(dat["oceanographic"])

\* the if-chain on pageId of renderDetailPage
RenderPage(pageId, dat) ==
    CASE pageId = "oceanographic" -> renderOceanographic(dat["oceanographic"])
      [] pageId = "fisheries" -> renderFisheries(dat["fisheries"])
      [] pageId = "molecular" -> renderMolecular(dat["molecular"])

-----------------------------------------------------------------------------
(* Page controller *)

\* what the user types into the two fields; what a URL carries as lat or lon
InputTexts == {Junk, InfText, Dec(0, 200), Dec(7, 123456789)}
UrlTexts   == InputTexts \cup {Absent}

\* the JSON bodies an upstream source answers with
MarineBodies ==
    {[hasHourly |-> TRUE, time |-> <<"2025-01-01T00:00", "2025-01-01T01:00">>,
      sst |-> <<18>>, units |-> "C"],
     [hasHourly |-> FALSE, time |-> << >>, sst |-> << >>, units |-> ""]}
ObisBodies ==
    {ObisBody(<<Rec("Gadus morhua", "Gadidae", "Gadus", "Actinopterygii"),
                Rec("Orcinus orca", "Delphinidae", "Orcinus", "Mammalia")>>),
     NoResults}
ObisFishBodies ==
    {ObisBody(<<Rec("Orcinus orca", "Delphinidae", "Orcinus", "Mammalia"),
                Rec("Clupea harengus", "Clupeidae", "Clupea", "ACTINOPTERYGII")>>)}
GbifBodies == {<<GbifRaw("", "Thunnus albacares")>>}

Bodies(r) ==
    CASE r = "marine"   -> MarineBodies
      [] r = "obisFish" -> ObisFishBodies
      [] r = "gbif"     -> GbifBodies
      [] r = "obisMol"  -> ObisBodies

Eff(op, arg) == [op |-> op, arg |-> arg]

Normalized(lat, lon) ==
    LET normalized == normalizeCoordsMaybeSwap(lat, lon)
    IN  [latitude |-> normalized.latitude, longitude |-> normalized.longitude]

\* the two input elements hold latText and lonText
parseCoordsFromInputs(latText, lonText) ==
    LET lon == parseFloat(lonText)
        lat == parseFloat(latText)
    IN  IF IsNaN(lon) \/ IsNaN(lat) THEN NoCoords ELSE Normalized(lat, lon)

\* a mutant of getCoordsFromQuery: without lat and lon in the URL the
\* persisted coordinate is taken
getCoordsFromQueryOrStorage(search) ==
    LET lat == parseFloat(search.lat)
        lon == parseFloat(search.lon)
    IN  IF IsNaN(lat) \/ IsNaN(lon) THEN storage ELSE Normalized(lat, lon)

getCoordsFromQuery(search) ==
    LET lat == parseFloat(search.lat)
        lon == parseFloat(search.lon)
    IN  IF IsNaN(lat) \/ IsNaN(lon) THEN NoCoords ELSE Normalized(lat, lon)

\* `?lat=${...}&lon=${...}`: encodeURIComponent leaves a numeral as it is
QueryOf(latitude, longitude) ==
    [lat |-> formatCoord(latitude), lon |-> formatCoord(longitude)]

\* the three nav links exist on every detail page
setNavLinksWithCoords(latitude, longitude) ==
    [d \in Domains |-> QueryOf(latitude, longitude)]

\* localStorage.setItem inside try: the entry is replaced unless it throws
SetItem(c, ok) == IF ok THEN c ELSE storage

\* click on exploreBtn of the main page, the fields holding the two texts
ExploreClick(latText, lonText, ok) ==
    /\ page = "main"
    /\ phase = "idle"
    /\ LET c == parseCoordsFromInputs(latText, lonText)
       IN  IF c = NoCoords
           THEN /\ effects' = <<Eff("alert", "")>>
                /\ UNCHANGED <<page, query, phase, coords, storage, navLinks,
                               content, req, pipe, data, submitted>>
           ELSE /\ storage' = SetItem(c, ok)
                /\ page' = "oceanographic"
                /\ query' = QueryOf(c.latitude, c.longitude)
                /\ phase' = "load"
                /\ FreshDocument
                /\ effects' = <<Eff("setItem", IF ok THEN "ok" ELSE "threw"),
                                Eff("navigate", "oceanographic")>>
                /\ submitted' = [c |-> c, live |-> TRUE]
    /\ UNCHANGED <<normVars, aggVars, hpc>>

\* the user opens or reloads a page by its address, with any query.  The new
\* document depends on the old one through storage alone, which no response
\* changes: leaving a document that has received a response reaches no
\* state that leaving it before does not
OpenUrl(p, q) ==
    /\ \A r \in Requests : req[r].st \in {"idle", "pending"}
    /\ page' = p
    /\ query' = q
    /\ phase' = "load"
    /\ FreshDocument
    /\ effects' = << >>
    /\ submitted' = NoSubmit
    /\ UNCHANGED <<storage, normVars, aggVars, hpc>>

\* click on a nav link of a detail page whose script has run
NavClick(d) ==
    /\ page \in Domains
    /\ phase \in {"fetching", "rendered", "crashed"}
    /\ page' = d
    /\ query' = navLinks[d]
    /\ phase' = "load"
    /\ FreshDocument
    /\ effects' = << >>
    /\ UNCHANGED <<storage, submitted, normVars, aggVars, hpc>>

\* the script on the main page: the body has no data-page
LoadMain ==
    /\ page = "main"
    /\ phase = "load"
    /\ phase' = "idle"
    /\ UNCHANGED <<page, query, coords, storage, navLinks, content, req, pipe,
                   data, effects, submitted, normVars, aggVars, hpc>>

\* renderDetailPage up to its await
RenderDetailPage(ok) ==
    /\ page \in Domains
    /\ phase = "load"
    /\ LET c == getCoordsFromQuery(query)
       IN  /\ coords' = c
           /\ IF c = NoCoords
              THEN /\ content' = RenderPage(page, NoData)
                   /\ phase' = "rendered"
                   /\ effects' = <<Eff("loading", ""), Eff("render", page)>>
                   /\ UNCHANGED <<storage, navLinks, req, pipe>>
              ELSE /\ content' = Loading
                   /\ storage' = SetItem(c, ok)
                   /\ navLinks' = setNavLinksWithCoords(c.latitude, c.longitude)
                   /\ req' = [r \in Requests |->
                                [st |-> "pending", latitude |-> c.latitude,
                                 longitude |-> c.longitude, body |-> << >>]]
                   /\ pipe' = Pipelines(req')
                   /\ phase' = "fetching"
                   /\ effects' = <<Eff("loading", ""),
                                   Eff("setItem", IF ok THEN "ok" ELSE "threw"),
                                   Eff("setLinks", ""),
                                   Eff("fetch", "marine"), Eff("fetch", "obisFish"),
                                   Eff("fetch", "gbif"), Eff("fetch", "obisMol")>>
    /\ UNCHANGED <<page, query, data, submitted, normVars, aggVars, hpc>>

\* what the try block after the table can come to: no chart attempted (no
\* canvas, no chart library, or on the oceanographic page no hourly series),
\* the charts built, or an exception, which the empty catch swallows
ChartOutcomes(pageId, dat) ==
    IF pageId = "oceanographic" /\ ~Has(dat["oceanographic"], "hourly")
    THEN {"none"}
    ELSE {"none", "built", "threw"}

\* a response (or a network error) arrives for request r; the promises it
\* settles run their continuations, renderDetailPage included once
\* getLiveOrMockData has resolved: the table, then the charts
Settle(r, st, body, chart) ==
    /\ page \in Domains
    /\ phase \in {"fetching", "rendered", "crashed"}
    /\ req[r].st = "pending"
    /\ req' = [req EXCEPT ![r].st = st, ![r].body = body]
    /\ pipe' = Pipelines(req')
    /\ LET live == getLiveOrMockData(pipe')
       IN  IF phase = "fetching" /\ live.st = "fulfilled"
           THEN /\ data' = live.value
                /\ content' = RenderPage(page, live.value)
                /\ chart \in ChartOutcomes(page, live.value)
                /\ effects' = effects \o <<Eff("render", page), Eff("chart", chart)>>
                /\ phase' = "rendered"
           ELSE IF phase = "fetching" /\ live.st = "rejected"
           THEN /\ chart = "none"
                /\ phase' = "crashed"
                /\ UNCHANGED <<data, content, effects>>
           ELSE /\ chart = "none"
                /\ UNCHANGED <<data, content, effects, phase>>
    /\ UNCHANGED <<page, query, coords, storage, navLinks, submitted,
                   normVars, aggVars, hpc>>

Charts == {"none", "built", "threw"}

RespondOk(r) ==
    \E body \in Bodies(r), chart \in Charts : Settle(r, "ok", body, chart)
RespondNotOk(r) == \E chart \in Charts : Settle(r, "notok", << >>, chart)
NetworkError(r) == \E chart \in Charts : Settle(r, "neterr", << >>, chart)

Init ==
    /\ NormAtRest
    /\ AggAtRest
    /\ hpc = "in"
    /\ CtlAtRest

Next ==
    \/ \E latText, lonText \in InputTexts, ok \in BOOLEAN :
            ExploreClick(latText, lonText, ok)
    \/ \E p \in Domains \cup {"main"}, la, lo \in UrlTexts :
            OpenUrl(p, [lat |-> la, lon |-> lo])
    \/ \E d \in Domains : NavClick(d)
    \/ LoadMain
    \/ \E ok \in BOOLEAN : RenderDetailPage(ok)
    \/ \E r \in Requests : RespondOk(r) \/ RespondNotOk(r) \/ NetworkError(r)

Spec == Init /\ [][Next]_vars

\* the bodies answered while a page is followed to its table: source A
\* answers the biodiversity request with no records
LiveBodies(r) == IF r = "obisMol" THEN {NoResults} ELSE Bodies(r)

\* a response, a non-success status or a network error arrives for request r
Answer(r) ==
    \E chart \in Charts :
        \/ \E body \in LiveBodies(r) : Settle(r, "ok", body, chart)
        \/ Settle(r, "notok", << >>, chart)
        \/ Settle(r, "neterr", << >>, chart)

\* what the URL of a detail page carries as lat and as lon when the page is
\* followed to its table
LiveTexts == {Absent, Dec(0, 200)}

\* the detail pages, opened by address or by nav link
NextLive ==
    \/ \E p \in Domains, t \in LiveTexts : OpenUrl(p, [lat |-> t, lon |-> t])
    \/ \E d \in Domains : NavClick(d)
    \/ \E ok \in BOOLEAN : RenderDetailPage(ok)
    \/ \E r \in Requests : Answer(r)

\* the detail pages where the script of a loaded page runs and every
\* request in flight is answered in the end
SpecLive ==
    /\ Init
    /\ [][NextLive]_vars
    /\ WF_vars(\E ok \in BOOLEAN : RenderDetailPage(ok))
    /\ \A r \in Requests : WF_vars(Answer(r))

-----------------------------------------------------------------------------
(* Specification of the normaliser: every pair of CoordValues is normalised *)

InitNormalize ==
    /\ argLat \in CoordValues
    /\ argLon \in CoordValues
    /\ normOut = NoCoords
    /\ hpc = "in"
    /\ AggAtRest
    /\ CtlAtRest

Normalize ==
    /\ hpc = "in"
    /\ normOut' = normalizeCoordsMaybeSwap(argLat, argLon)
    /\ hpc' = "out"
    /\ UNCHANGED <<argLat, argLon, aggVars, ctlVars>>

SpecNormalize == InitNormalize /\ [][Normalize]_vars

-----------------------------------------------------------------------------
(* Specification of the aggregators: every pair of AggInputs is aggregated *)

InitAggregate ==
    /\ \E in \in AggInputs : obisIn = in[1] /\ gbifIn = in[2]
    /\ fishOut = << >>
    /\ molOut = << >>
    /\ hpc = "in"
    /\ NormAtRest
    /\ CtlAtRest

Aggregate ==
    /\ hpc = "in"
    /\ fishOut' = FisheriesSummary(obisIn, GbifNormalize(gbifIn))
    /\ molOut' = BiodiversitySummary(obisIn)
    /\ hpc' = "out"
    /\ UNCHANGED <<obisIn, gbifIn, normVars, ctlVars>>

SpecAggregate == InitAggregate /\ [][Aggregate]_vars

-----------------------------------------------------------------------------
(* Properties *)

InRange(v, lo, hi) == lo <= v /\ v <= hi
Clamped(v, lo, hi) == IF v < lo THEN lo ELSE IF v > hi THEN hi ELSE v

(* C1: for a latitude outside [-90,90] and a longitude inside [-180,180]   *)
(* the normaliser returns the swapped pair, each axis clamped; for every   *)
(* other pair it clamps each axis without a swap; latitude 200 with        *)
(* longitude 10 gives latitude 10, longitude 180.                          *)
NormalizeSwapsAndClamps ==
    hpc = "out" =>
        LET swapped == /\ ~InRange(argLat, -90 * Deg, 90 * Deg)
                       /\ InRange(argLon, -180 * Deg, 180 * Deg)
        IN  /\ swapped =>
                normOut = [latitude |-> Clamped(argLon, -90 * Deg, 90 * Deg),
                           longitude |-> Clamped(argLat, -180 * Deg, 180 * Deg)]
            /\ ~swapped =>
                normOut = [latitude |-> Clamped(argLat, -90 * Deg, 90 * Deg),
                           longitude |-> Clamped(argLon, -180 * Deg, 180 * Deg)]
            /\ (argLat = 200 * Deg /\ argLon = 10 * Deg) =>
                normOut = [latitude |-> 10 * Deg, longitude |-> 180 * Deg]

NormalizeSwapped ==
    /\ hpc = "out"
    /\ argLat = 200 * Deg
    /\ argLon = 10 * Deg
    /\ normOut = [latitude |-> 10 * Deg, longitude |-> 180 * Deg]

\* the number of distinct non-empty scientific names of the records given
DistinctNames ==
    Cardinality({r.scientificName : r \in Range(ResultsOf(obisIn))} \ {""})

(* C9: with n distinct non-empty scientific names, biodiversity            *)
(* aggregation yields taxa count n, diversity index min(n/100, 0.95) with  *)
(* two decimals, risk Moderate exactly when n > 50; the empty list yields  *)
(* "0.00", 0, Low and empty top-family and top-genus lists.                *)
BiodiversityFromDistinctNames ==
    hpc = "out" =>
        LET n == DistinctNames
        IN  /\ molOut.potentialTaxaDetected = n
            /\ molOut.eDnaDiversityIndex.kind = "dec"
            /\ molOut.eDnaDiversityIndex.k = 2
            /\ molOut.eDnaDiversityIndex.n = (IF n < 95 THEN n ELSE 95)
            /\ (molOut.invasiveRisk = "Moderate") = (n > 50)
            /\ (molOut.invasiveRisk = "Low") = (n <= 50)
            /\ ResultsOf(obisIn) = << >> =>
                /\ molOut.eDnaDiversityIndex = Dec(2, 0)
                /\ molOut.potentialTaxaDetected = 0
                /\ molOut.invasiveRisk = "Low"
                /\ molOut.topFamilies = << >>
                /\ molOut.topGenera = << >>

BiodiversityAtThreshold ==
    /\ hpc = "out"
    /\ DistinctNames = 51
    /\ molOut.invasiveRisk = "Moderate"
    /\ Len(ResultsOf(obisIn)) <= 100

\* the combined fish occurrence count of the records given
FishClassSpellings == {"Actinopterygii", "ACTINOPTERYGII", "actinopterygii"}

CombinedCount ==
    LET recs == ResultsOf(obisIn)
    IN  Cardinality({i \in 1..Len(recs) : recs[i].class \in FishClassSpellings})
        + Len(gbifIn)

(* C10: with combined fish occurrence count c, the catch index is 2c + 20  *)
(* clamped into [20,95], habitat suitability is min(98, 40 + round(0.8c)), *)
(* the advisory is the favourable one exactly when c > 10; c = 0 gives 20  *)
(* and 40, c = 40 gives 95; the indices stay in [20,95] and [40,98].       *)
FisheriesIndicesFromCount ==
    hpc = "out" =>
        LET c == CombinedCount
            rounded == CHOOSE r \in 0..c : 10 * r - 8 * c \in -4..5
        IN  /\ fishOut.totalFishOccurrencesCombined = c
            /\ fishOut.predictedCatchIndex = Clamped(2 * c + 20, 20, 95)
            /\ fishOut.habitatSuitability =
                  (IF 40 + rounded > 98 THEN 98 ELSE 40 + rounded)
            /\ (fishOut.advisories = "Conditions favorable for small-scale fishing")
                  = (c > 10)
            /\ (fishOut.advisories = "Survey area recommended") = (c <= 10)
            /\ c = 0 => fishOut.predictedCatchIndex = 20
                        /\ fishOut.habitatSuitability = 40
            /\ c = 40 => fishOut.predictedCatchIndex = 95
            /\ InRange(fishOut.predictedCatchIndex, 20, 95)
            /\ InRange(fishOut.habitatSuitability, 40, 98)

FisheriesCatchClamped ==
    /\ hpc = "out"
    /\ CombinedCount = 40
    /\ fishOut.predictedCatchIndex = 95
    /\ fishOut.habitatSuitability = 72

\* the scientific names of the bony-fish records of source A, in record order
FishNamesA ==
    LET recs == ResultsOf(obisIn)
        fish == SelectSeq(recs, LAMBDA r : r.class \in FishClassSpellings)
    IN  SelectSeq([i \in 1..Len(fish) |-> fish[i].scientificName],
                  LAMBDA x : x # "")

\* the name of a raw record of source B: its scientific name, else its species
NameB(r) == IF r.scientificName # "" THEN r.scientificName ELSE r.species

\* the names of the records of source B, in record order
NamesB ==
    SelectSeq([i \in 1..Len(gbifIn) |-> NameB(gbifIn[i])], LAMBDA x : x # "")

\* where a name first occurs among the names of source A followed by source B
FirstPos(x) ==
    LET cand == FishNamesA \o NamesB
    IN  CHOOSE i \in 1..Len(cand) :
            cand[i] = x /\ \A j \in 1..(i - 1) : cand[j] # x

(* C11: the combined species list (reported through its first five names)  *)
(* holds each name of a bony-fish record of source A, class matched in any *)
(* letter case, in first-occurrence order, then the names of source B not  *)
(* already present, without duplicates; the dominant species is the first  *)
(* combined name, else the scientific name of the first raw record of      *)
(* source A, else that of source B, else "Unknown"; two empty sources give *)
(* "Unknown".                                                              *)
CombinedSpeciesAndDominant ==
    hpc = "out" =>
        LET s     == fishOut.sampleSpecies
            names == Range(FishNamesA) \cup Range(NamesB)
            recs  == ResultsOf(obisIn)
        IN  /\ Len(s) = (IF Cardinality(names) < 5 THEN Cardinality(names) ELSE 5)
            /\ \A i \in 1..Len(s) : s[i] \in names
            /\ \A i, j \in 1..Len(s) : i < j => FirstPos(s[i]) < FirstPos(s[j])
            /\ \A x \in names \ Range(s) :
                    \A i \in 1..Len(s) : FirstPos(s[i]) < FirstPos(x)
            /\ \A i, j \in 1..Len(s) :
                    (s[i] \in Range(FishNamesA) /\ s[j] \notin Range(FishNamesA))
                        => i < j
            /\ fishOut.dominantSpecies =
                    (IF names # {} THEN s[1]
                     ELSE IF Len(recs) > 0 /\ recs[1].scientificName # ""
                         THEN recs[1].scientificName
                     ELSE IF Len(gbifIn) > 0 /\ NameB(gbifIn[1]) # ""
                         THEN NameB(gbifIn[1])
                     ELSE "Unknown")
            /\ (recs = << >> /\ gbifIn = << >>) =>
                    fishOut.dominantSpecies = "Unknown"

CombinedFromBothSources ==
    /\ hpc = "out"
    /\ Len(gbifIn) = 2
    /\ gbifIn[1].scientificName = "Gadus morhua"
    /\ fishOut.sampleSpecies =
          <<"Clupea harengus", "Gadus morhua", "Thunnus albacares">>
    /\ fishOut.dominantSpecies = "Clupea harengus"

\* the values of field f in the records of source A, in record order
KeysOf(f) == Field(ResultsOf(obisIn), f)

Occurrences(f, x) ==
    Cardinality({i \in 1..Len(KeysOf(f)) : KeysOf(f)[i] = x})

\* the record in which x is first encountered as the value of field f
FirstSeen(f, x) ==
    CHOOSE i \in 1..Len(KeysOf(f)) :
        KeysOf(f)[i] = x /\ \A j \in 1..(i - 1) : KeysOf(f)[j] # x

\* top is the at most three most frequent values of field f, each with its
\* occurrence count, most frequent first; empty values are not counted
TopThreeByCount(top, f) ==
    LET present == Range(KeysOf(f)) \ {""}
        listed  == {top[i].name : i \in 1..Len(top)}
    IN  /\ Len(top) = (IF Cardinality(present) < 3 THEN Cardinality(present) ELSE 3)
        /\ listed \subseteq present
        /\ Cardinality(listed) = Len(top)
        /\ \A i \in 1..Len(top) : top[i].count = Occurrences(f, top[i].name)
        /\ \A i, j \in 1..Len(top) : i < j => top[i].count >= top[j].count
        /\ \A x \in present \ listed :
                \A i \in 1..Len(top) : Occurrences(f, x) <= top[i].count

\* x precedes y whenever both are counted equally often and before(x, y)
TiesBrokenBy(top, f, before(_, _)) ==
    LET present == Range(KeysOf(f)) \ {""}
        listed  == {top[i].name : i \in 1..Len(top)}
    IN  /\ \A i, j \in 1..Len(top) :
                (top[i].count = top[j].count /\ before(top[i].name, top[j].name))
                    => i < j
        /\ \A x \in present \ listed : \A i \in 1..Len(top) :
                Occurrences(f, x) = top[i].count => ~before(x, top[i].name)

(* C12: the top families, and likewise the top genera, are at most three,  *)
(* in order of non-increasing occurrence count, no omitted one counted     *)
(* strictly more often than a listed one, and of two counted equally often *)
(* the one first encountered in the record list comes first; records       *)
(* without a family (genus) are counted nowhere.                           *)
TopThreeTiesFirstEncountered ==
    hpc = "out" =>
        /\ TopThreeByCount(molOut.topFamilies, "family")
        /\ TopThreeByCount(molOut.topGenera, "genus")
        /\ TiesBrokenBy(molOut.topFamilies, "family",
              LAMBDA x, y : FirstSeen("family", x) < FirstSeen("family", y))
        /\ TiesBrokenBy(molOut.topGenera, "genus",
              LAMBDA x, y : FirstSeen("genus", x) < FirstSeen("genus", y))

\* x comes before y in the key order of an object: numbers before names,
\* numbers ascending, names as first encountered
KeyOrderBefore(f, x, y) ==
    IF x \in {"1", "2"} /\ y \in {"1", "2"}
        THEN (x = "1" /\ y = "2")
    ELSE IF x \in {"1", "2"} THEN TRUE
    ELSE IF y \in {"1", "2"} THEN FALSE
    ELSE FirstSeen(f, x) < FirstSeen(f, y)

\* what holds of C12: the counts and their order as claimed, ties broken by
\* the key order of the counting object, which is the order of first
\* encounter only among names that are not numbers
TopThreeTiesKeyOrder ==
    hpc = "out" =>
        /\ TopThreeByCount(molOut.topFamilies, "family")
        /\ TopThreeByCount(molOut.topGenera, "genus")
        /\ TiesBrokenBy(molOut.topFamilies, "family",
              LAMBDA x, y : KeyOrderBefore("family", x, y))
        /\ TiesBrokenBy(molOut.topGenera, "genus",
              LAMBDA x, y : KeyOrderBefore("genus", x, y))

\* eight taxa of four families, two each: the family first encountered last
\* is the one left out
FourthFamilyOmitted ==
    /\ hpc = "out"
    /\ Cardinality(Range(KeysOf("family")) \ {""}) = 4
    /\ molOut.topFamilies =
          <<[name |-> "Fam1", count |-> 2], [name |-> "Fam2", count |-> 2],
            [name |-> "Fam3", count |-> 2]>>
    /\ Occurrences("family", "Fam0") = 2

\* family "2" encountered before family "1", once each: "1" is listed first
NumberedFamilyOutOfOrder ==
    /\ hpc = "out"
    /\ Len(KeysOf("family")) = 2
    /\ KeysOf("family") = <<"2", "1">>
    /\ molOut.topFamilies =
          <<[name |-> "1", count |-> 1], [name |-> "2", count |-> 1]>>

-----------------------------------------------------------------------------
(* Properties of the page controller *)

CoordInRange(c) ==
    /\ InRange(c.latitude, -90 * Deg, 90 * Deg)
    /\ InRange(c.longitude, -180 * Deg, 180 * Deg)

QueryInRange(q) ==
    /\ q.lat.kind = "dec"
    /\ q.lon.kind = "dec"
    /\ CoordInRange([latitude |-> parseFloat(q.lat), longitude |-> parseFloat(q.lon)])

Rendered == content.kind \in {"table", "hourly"}

\* the script of a detail page has run, with a coordinate in the URL
DetailWithCoords ==
    page \in Domains /\ phase \in {"fetching", "rendered", "crashed"} /\ coords # NoCoords

(* C2: every coordinate persisted to local storage, written into a nav     *)
(* link or into the URL the Explore click navigates to, or passed to a     *)
(* fetcher has its latitude in [-90,90] and its longitude in [-180,180].   *)
CoordinatesStayInRange ==
    /\ storage # NoCoords => CoordInRange(storage)
    /\ \A d \in Domains : navLinks[d] # NoQuery => QueryInRange(navLinks[d])
    /\ (effects # << >> /\ effects[Len(effects)].op = "navigate") => QueryInRange(query)
    /\ \A r \in Requests :
          req[r].st # "idle" =>
              CoordInRange([latitude |-> req[r].latitude,
                            longitude |-> req[r].longitude])

OutOfRangeUrlClamped ==
    /\ page = "fisheries"
    /\ query = [lat |-> Dec(0, 200), lon |-> Dec(0, 200)]
    /\ storage = [latitude |-> 90 * Deg, longitude |-> 180 * Deg]
    /\ req["gbif"].st = "pending"
    /\ req["gbif"].longitude = 180 * Deg
    /\ navLinks["molecular"] = [lat |-> Dec(6, 90000000), lon |-> Dec(6, 180000000)]

IsFiniteText(t) == t.kind = "dec"

(* C3: a click on Explore with a field that is not a finite number is      *)
(* rejected with an alert, nothing persisted, no navigation; with two      *)
(* finite numbers the normalised coordinate is persisted and the browser   *)
(* goes to the oceanographic page with it as lat and lon.                  *)
ExploreRejectsNonFinite ==
    [][\A la, lo \in InputTexts, ok \in BOOLEAN :
          ExploreClick(la, lo, ok) =>
              IF IsFiniteText(la) /\ IsFiniteText(lo)
              THEN LET c == normalizeCoordsMaybeSwap(parseFloat(la), parseFloat(lo))
                   IN  /\ page' = "oceanographic"
                       /\ query' = QueryOf(c.latitude, c.longitude)
                       /\ ok => storage' = c
              ELSE /\ effects' = <<Eff("alert", "")>>
                   /\ storage' = storage
                   /\ page' = "main"
                   /\ query' = query]_vars

\* what the code does: only a text parseFloat makes NaN of is rejected
ExploreRejectsNaN ==
    [][\A la, lo \in InputTexts, ok \in BOOLEAN :
          ExploreClick(la, lo, ok) =>
              IF la.kind \in {"dec", "inf"} /\ lo.kind \in {"dec", "inf"}
              THEN LET c == normalizeCoordsMaybeSwap(parseFloat(la), parseFloat(lo))
                   IN  /\ page' = "oceanographic"
                       /\ query' = QueryOf(c.latitude, c.longitude)
                       /\ ok => storage' = c
              ELSE /\ effects' = <<Eff("alert", "")>>
                   /\ storage' = storage
                   /\ page' = "main"
                   /\ query' = query]_vars

Unparseable(t) == t.kind \in {"absent", "junk"}

AllDashes(d) ==
    [kind |-> "table", domain |-> d, dash |-> Labels(d), shown |-> {}, rows |-> 0]

(* C4: a detail page loaded without a parseable lat and lon issues no      *)
(* request, leaves local storage and the nav links as they were and shows  *)
(* its domain table with a dash for every metric, whatever was persisted.  *)
NoQueryNoFetch ==
    [][(page' \in Domains /\ (Unparseable(query'.lat) \/ Unparseable(query'.lon))) =>
          /\ \A r \in Requests : req'[r].st = "idle"
          /\ navLinks' = [d \in Domains |-> NoQuery]
          /\ phase' = "rendered" =>
                /\ content' = AllDashes(page')
                /\ phase = "load" => storage' = storage /\ navLinks' = navLinks
          /\ phase' = "load" => content' = Blank
          /\ phase' \in {"load", "rendered"}]_vars

StaleStorageIgnored ==
    /\ page = "molecular"
    /\ query = [lat |-> Absent, lon |-> Dec(0, 200)]
    /\ phase = "rendered"
    /\ storage = [latitude |-> 90 * Deg, longitude |-> 180 * Deg]
    /\ content = AllDashes("molecular")
    /\ \A r \in Requests : req[r].st = "idle"

DomainOf(r) ==
    CASE r = "marine" -> "oceanographic"
      [] r = "obisFish" -> "fisheries"
      [] r = "gbif" -> "fisheries"
      [] r = "obisMol" -> "molecular"

\* the persisting and the nav links come before every request, in program order
PersistedBeforeFetch ==
    /\ \E i \in 1..Len(effects) : effects[i].op = "setItem"
    /\ \E i \in 1..Len(effects) : effects[i].op = "setLinks"
    /\ \A i, j \in 1..Len(effects) :
          (effects[i].op = "fetch" /\ effects[j].op \in {"setItem", "setLinks"}) => j < i
    /\ Eff("setItem", "ok") \in Range(effects) => storage = coords
    /\ navLinks = [d \in Domains |-> QueryOf(coords.latitude, coords.longitude)]

RendersOwnDomainOnly ==
    /\ \A i \in 1..Len(effects) : effects[i].op = "render" => effects[i].arg = page
    /\ Rendered => content.domain = page

(* C5, as stated: a detail page loaded with a coordinate persists it and   *)
(* updates the nav links before any request is issued, then fetches and    *)
(* renders for its own domain only: no fetch for the other two domains.    *)
DetailFetchesOwnDomainOnly ==
    DetailWithCoords =>
        /\ PersistedBeforeFetch
        /\ RendersOwnDomainOnly
        /\ \A r \in Requests : req[r].st # "idle" => DomainOf(r) = page

(* C5, amended: a detail page loaded with a coordinate persists it and     *)
(* updates the nav links before any request is issued, then issues the     *)
(* requests of all three domains with that coordinate and renders the      *)
(* table of its own domain only.                                           *)
DetailFetchesAllRendersOwn ==
    DetailWithCoords =>
        /\ PersistedBeforeFetch
        /\ RendersOwnDomainOnly
        /\ \A r \in Requests :
              /\ req[r].st # "idle"
              /\ Eff("fetch", r) \in Range(effects)
              /\ req[r].latitude = coords.latitude
              /\ req[r].longitude = coords.longitude

FisheriesPageRendered ==
    /\ page = "fisheries"
    /\ DetailWithCoords
    /\ content.kind = "table"
    /\ content.domain = "fisheries"
    /\ "predictedCatchIndex" \in content.shown
    /\ req["marine"].st = "ok"
    /\ Eff("render", "fisheries") \in Range(effects)

Failed(st) == st \in {"notok", "neterr"}

PipelinePending(d) ==
    CASE d = "oceanographic" -> req["marine"].st = "pending"
      [] d = "molecular" -> req["obisMol"].st = "pending"
      [] d = "fisheries" ->
            \/ req["obisFish"].st = "pending"
            \/ req["obisFish"].st = "ok" /\ req["gbif"].st = "pending"

(* C6, as stated: the three pipelines start together and the page renders  *)
(* no table before all three have settled, whatever fails and in whatever  *)
(* order; so one request that never responds keeps the page from rendering.*)
RenderWaitsForEveryRequest ==
    DetailWithCoords =>
        /\ \A r \in Requests : req[r].st # "idle"
        /\ \A d \in Domains : pipe[d].st = "pending" <=> PipelinePending(d)
        /\ Rendered <=> \A d \in Domains : ~PipelinePending(d)
        /\ Rendered => \A r \in Requests : req[r].st # "pending"

(* C6, amended: the three pipelines start together and the page renders    *)
(* no table before all three have settled, whatever fails and in whatever  *)
(* order; a request that never responds keeps the page from rendering,     *)
(* except the source-B request once the fisheries source-A request has     *)
(* failed: the fisheries pipeline has then settled without it.             *)
RenderWaitsForEveryPipeline ==
    DetailWithCoords =>
        /\ \A r \in Requests : req[r].st # "idle"
        /\ \A d \in Domains : pipe[d].st = "pending" <=> PipelinePending(d)
        /\ \A d \in Domains : pipe[d].st \in {"pending", "fulfilled"}
        /\ Rendered <=> \A d \in Domains : ~PipelinePending(d)
        /\ ~Rendered => content = Loading /\ phase = "fetching"
        /\ Rendered =>
              \A r \in Requests :
                  req[r].st = "pending" => r = "gbif" /\ Failed(req["obisFish"].st)

RenderedWithoutSourceB ==
    /\ DetailWithCoords
    /\ Rendered
    /\ req["gbif"].st = "pending"
    /\ req["obisFish"].st = "neterr"
    /\ req["marine"].st = "notok"
    /\ req["obisMol"].st = "ok"

(* C7: whatever requests fail, getLiveOrMockData does not throw, the       *)
(* summary of a domain whose pipeline failed is the empty object, shown as *)
(* dashes only, and the summary of every other domain is the one made from *)
(* its own responses alone.                                                *)
FailuresContainedPerDomain ==
    /\ phase # "crashed"
    /\ (DetailWithCoords /\ Rendered) =>
          /\ data["oceanographic"] =
                (IF req["marine"].st = "ok" THEN OceanSummary(req["marine"].body)
                 ELSE << >>)
          /\ data["fisheries"] =
                (IF req["obisFish"].st = "ok"
                 THEN FisheriesSummary(req["obisFish"].body,
                        IF req["gbif"].st = "ok" THEN GbifNormalize(req["gbif"].body)
                        ELSE << >>)
                 ELSE << >>)
          /\ data["molecular"] =
                (IF req["obisMol"].st = "ok" THEN BiodiversitySummary(req["obisMol"].body)
                 ELSE << >>)
          /\ data[page] = << >> => content = AllDashes(page)

MarineFailureContained ==
    /\ page = "oceanographic"
    /\ DetailWithCoords
    /\ req["marine"].st = "neterr"
    /\ req["obisFish"].st = "ok"
    /\ req["gbif"].st = "ok"
    /\ req["obisMol"].st = "ok"
    /\ content = AllDashes("oceanographic")
    /\ data["fisheries"].totalFishOccurrencesCombined = 2
    /\ data["molecular"].potentialTaxaDetected = 2

\* the bony-fish records of a body of source A
FishRecordsOf(json) ==
    SelectSeq(ResultsOf(json), LAMBDA r : r.class \in FishClassSpellings)

(* C13: a failed source-B request becomes an empty list inside its         *)
(* fetcher, so with source A answered the fisheries summary is made from   *)
(* the source-A records alone, source-B count 0; a failed source-A request *)
(* is thrown to its caller, so the fisheries summary, and for its own      *)
(* request the biodiversity summary, is the empty one whatever source B    *)
(* did; the thrown failure never leaves the domain pipeline.               *)
SourceFailuresDiffer ==
    /\ phase # "crashed"
    /\ DetailWithCoords =>
          LET fish == pipe["fisheries"]
          IN  /\ \A d \in Domains : pipe[d].st # "rejected"
              /\ (Failed(req["gbif"].st) /\ req["obisFish"].st = "ok") =>
                    /\ fish.st = "fulfilled"
                    /\ ~fish.isNull
                    /\ fish.value.totalFishOccurrencesGbif = 0
                    /\ fish.value.fishOccurrencesGbif = << >>
                    /\ fish.value.fishOccurrences = FishRecordsOf(req["obisFish"].body)
                    /\ fish.value.totalFishOccurrences
                          = Len(FishRecordsOf(req["obisFish"].body))
                    /\ fish.value.totalFishOccurrencesCombined
                          = fish.value.totalFishOccurrences
                    /\ Rendered => data["fisheries"] = fish.value
              /\ Failed(req["obisFish"].st) =>
                    /\ fish = NullP
                    /\ Rendered => data["fisheries"] = << >>
                    /\ (Rendered /\ page = "fisheries") =>
                          content = AllDashes("fisheries")
              /\ Failed(req["obisMol"].st) =>
                    /\ pipe["molecular"] = NullP
                    /\ Rendered => data["molecular"] = << >>

SourceBFailedSourceAServed ==
    /\ page = "fisheries"
    /\ DetailWithCoords
    /\ Rendered
    /\ req["gbif"].st = "notok"
    /\ req["obisFish"].st = "ok"
    /\ data["fisheries"].totalFishOccurrencesGbif = 0
    /\ data["fisheries"].totalFishOccurrences = 1
    /\ data["fisheries"].dominantSpecies = "Clupea harengus"
    /\ "totalFishOccurrences" \in content.shown
    /\ "fishOccurrencesGbif" \in content.dash

\* the page shows the table of its own domain
ShowsOwnTable == Rendered /\ content.domain = page

(* C14: when every request issued is answered in the end, by a response, a *)
(* non-success status or a network error, a detail page loaded with a      *)
(* coordinate leaves "Loading data..." and shows the table of its domain,  *)
(* unless the user leaves the page first, in every order and combination   *)
(* of answers and whether or not the storage write or the charts throw; no *)
(* failure is left unhandled.                                              *)
LoadingEndsInTable ==
    /\ [](phase # "crashed")
    /\ (DetailWithCoords /\ content = Loading) ~> (ShowsOwnTable \/ phase = "load")

\* every request failed, the storage write threw, the charts threw: the
\* table of dashes is shown
TableAfterEveryFailure ==
    /\ DetailWithCoords
    /\ page = "molecular"
    /\ \A r \in Requests : Failed(req[r].st)
    /\ Eff("setItem", "threw") \in Range(effects)
    /\ effects[Len(effects)] = Eff("chart", "threw")
    /\ content = AllDashes("molecular")

\* v rounded to six decimals: the multiple of ten units nearest to v
Round6(v) == CHOOSE m \in (v - 5)..(v + 5) : m % 10 = 0 /\ Abs(m - v) < 5

\* the page works with coordinate c: parsed, passed on, persisted
ActiveCoordinate(c) ==
    /\ coords = c
    /\ \A d \in Domains :
          /\ navLinks[d].lat.kind = "dec" /\ parseFloat(navLinks[d].lat) = c.latitude
          /\ navLinks[d].lon.kind = "dec" /\ parseFloat(navLinks[d].lon) = c.longitude
    /\ \A r \in Requests : req[r].latitude = c.latitude /\ req[r].longitude = c.longitude
    /\ Eff("setItem", "ok") \in Range(effects) => storage = c

(* C8, as stated: after a valid coordinate c is submitted on the main      *)
(* page, every detail page reached by nav links has c as its active        *)
(* coordinate and its three nav links carry c; formatting into a link and  *)
(* parsing again never alters the coordinate.                              *)
NavLinksCarrySubmitted ==
    (submitted.live /\ DetailWithCoords) => ActiveCoordinate(submitted.c)

(* C8, amended: after a valid coordinate c is submitted on the main page,  *)
(* every detail page reached by nav links has c rounded to six decimals as *)
(* its active coordinate and its three nav links carry that rounded c;     *)
(* after this first rounding, formatting into a link and parsing again     *)
(* never alters the coordinate.                                            *)
NavLinksCarryRoundedSubmitted ==
    submitted.live =>
        /\ phase # "load" => DetailWithCoords
        /\ DetailWithCoords =>
              ActiveCoordinate([latitude |-> Round6(submitted.c.latitude),
                                longitude |-> Round6(submitted.c.longitude)])

RoundedCoordinateCarried ==
    /\ submitted = [c |-> [latitude |-> 123456789, longitude |-> 180 * Deg],
                    live |-> TRUE]
    /\ page = "molecular"
    /\ phase = "rendered"
    /\ coords = [latitude |-> 123456790, longitude |-> 180 * Deg]
    /\ navLinks["fisheries"] = [lat |-> Dec(6, 12345679), lon |-> Dec(6, 180000000)]

====
